---- MODULE Spec2Model ----
(***************************************************************************)
(* QuestTodo (src/questtodo.py): the activity store (tables activities and *)
(* completions) with its commands, and the streak engine                   *)
(* (day_is_success_for_streak, calc_streak_upto).                          *)
(*                                                                         *)
(* Two specifications share the variables:                                 *)
(*   Spec        the store commands, called one at a time;                 *)
(*   StreakSpec  one call of calc_streak_upto on a store drawn from a      *)
(*               bounded family of stores the commands can produce.        *)
(*                                                                         *)
(* A datetime.date is its proleptic Gregorian ordinal (date.toordinal()).  *)
(* A name is a sequence of one-character strings.                          *)
(***************************************************************************)
EXTENDS Integers, Sequences, FiniteSets, TLC

VARIABLES
    activities,    \* rows of table activities
    completions,   \* rows of table completions
    seq,           \* sqlite_sequence of activities (AUTOINCREMENT)
    call,          \* the last store command and its arguments
    result,        \* what that command returned
    pc,            \* position in calc_streak_upto
    today,         \* calc_streak_upto: argument today
    allowed,       \* calc_streak_upto: argument allowed_misses_per_week
    streak,        \* calc_streak_upto: local streak
    d,             \* calc_streak_upto: local d
    current_week,  \* calc_streak_upto: local current_week
    misses,        \* calc_streak_upto: local misses
    ok,            \* calc_streak_upto: local ok
    day_,          \* day_is_success_for_streak: argument of the last call
    files,         \* the files of DATA_DIR: name -> contents
    now,           \* datetime.now(), in seconds
    conns          \* per running instance: its open connection in db_add_activity

vars == <<activities, completions, seq, call, result,
          pc, today, allowed, streak, d, current_week, misses, ok, day_,
          files, now, conns>>

storeVars == <<activities, completions, seq>>
walkVars == <<pc, today, allowed, streak, d, current_week, misses, ok, day_>>
hostVars == <<files, now, conns>>

----------------------------------------------------------------------------
(* Bounds of the model *)

MaxNameLen == 1      \* most letters in a name a caller passes
MaxIds == 2          \* most activities ever inserted in one run
MaxAllowed == 1      \* largest allowed_misses_per_week passed
WinLen == 12         \* days up to today that can hold completion rows
MaxMarked == 2       \* most days of the window singled out in a history
FirstToday == 739922 \* ordinal of the first reference date (2026-11-02)
MaxProcs == 2        \* instances of the application running at once
MaxClock == 2        \* seconds the clock runs on
MaxDamage == 2       \* different ways the store file gets damaged

(* Program constants *)

MaxStreak == 3650

----------------------------------------------------------------------------
(* helpers *)

\* date.weekday(): Monday = 0; ordinal 1 (0001-01-01) is a Monday.
Weekday(day) == (day + 6) % 7

monday(day) == day - Weekday(day)

\* datetime._DAYS_IN_MONTH and _DAYS_BEFORE_MONTH (index 1 = January)
DaysInMonth == <<31, 28, 31, 30, 31, 30, 31, 31, 30, 31, 30, 31>>

DaysBeforeMonth == <<0, 31, 59, 90, 120, 151, 181, 212, 243, 273, 304, 334>>

\* datetime._ord2ymd: the year, month and day of a proleptic Gregorian ordinal
Ord2Ymd(ordinal) ==
    LET n0 == ordinal - 1
        n400 == n0 \div 146097
        r400 == n0 % 146097
        n100 == r400 \div 36524
        r100 == r400 % 36524
        n4 == r100 \div 1461
        r4 == r100 % 1461
        n1 == r4 \div 365
        n == r4 % 365
        year == n400 * 400 + 1 + n100 * 100 + n4 * 4 + n1
        leapyear == n1 = 3 /\ (n4 # 24 \/ n100 = 3)
        leap(m) == IF m > 2 /\ leapyear THEN 1 ELSE 0
        month0 == (n + 50) \div 32
        preceding0 == DaysBeforeMonth[month0] + leap(month0)
        month == IF preceding0 > n THEN month0 - 1 ELSE month0
        preceding ==
            IF preceding0 > n
            THEN preceding0 - (DaysInMonth[month] + (IF month = 2 /\ leapyear THEN 1 ELSE 0))
            ELSE preceding0
    IN IF n1 = 4 \/ n100 = 4
       THEN <<year - 1, 12, 31>>
       ELSE <<year, month, n - preceding + 1>>

DigitChars == <<"0", "1", "2", "3", "4", "5", "6", "7", "8", "9">>

\* "%0<width>d" for a number that fits the width
RECURSIVE ZeroPadded(_, _)
ZeroPadded(n, width) ==
    IF width = 0 THEN <<>>
    ELSE Append(ZeroPadded(n \div 10, width - 1), DigitChars[(n % 10) + 1])

\* date.isoformat(): "%04d-%02d-%02d", a text of ten characters
IsoFormat(day) ==
    LET ymd == Ord2Ymd(day)
    IN ZeroPadded(ymd[1], 4) \o <<"-">> \o ZeroPadded(ymd[2], 2)
           \o <<"-">> \o ZeroPadded(ymd[3], 2)

\* the code point of a character of a date text or of a name
CodePoint(c) ==
    IF c = " " THEN 32
    ELSE IF c = "-" THEN 45
    ELSE IF c = "A" THEN 65
    ELSE IF c = "a" THEN 97
    ELSE 48 + (CHOOSE i \in 0..9 : DigitChars[i + 1] = c)

\* s <= t for two TEXT values under SQLite's BINARY collation: the first
\* differing character decides, and a prefix sorts first
RECURSIVE TextLE(_, _)
TextLE(s, t) ==
    IF s = <<>> THEN TRUE
    ELSE IF t = <<>> THEN FALSE
    ELSE IF Head(s) = Head(t) THEN TextLE(Tail(s), Tail(t))
    ELSE CodePoint(Head(s)) < CodePoint(Head(t))

mask_has_day(mask, day_idx) == ((mask \div (2 ^ day_idx)) % 2) = 1

\* a | b on non-negative integers
RECURSIVE BitOr(_, _)
BitOr(a, b) ==
    IF a = 0 THEN b
    ELSE IF b = 0 THEN a
    ELSE 2 * BitOr(a \div 2, b \div 2) + (IF a % 2 = 1 \/ b % 2 = 1 THEN 1 ELSE 0)

\* a & ~b on non-negative integers
RECURSIVE BitAndNot(_, _)
BitAndNot(a, b) ==
    IF a = 0 THEN 0
    ELSE 2 * BitAndNot(a \div 2, b \div 2) + (IF a % 2 = 1 /\ b % 2 = 0 THEN 1 ELSE 0)

\* the bit added and subtracted in place of | and & ~
set_mask_day_Arithmetic(mask, day_idx, value) ==
    IF value THEN mask + 2 ^ day_idx ELSE mask - 2 ^ day_idx

set_mask_day(mask, day_idx, value) ==
    LET bit == 2 ^ day_idx
    IN IF value THEN BitOr(mask, bit) ELSE BitAndNot(mask, bit)

full_week_mask == (2 ^ 7) - 1

----------------------------------------------------------------------------
(* the files of the data directory and the running instances *)

DB_PATH == <<"questodo.db">>

\* questodo_CORRUPTED_<ts>.db: strftime gives the time to the second
bad_path(ts) == <<"questodo_CORRUPTED_", ts, ".db">>

\* the contents of a database file that passes PRAGMA integrity_check; its
\* tables are the variables activities, completions and seq
ValidStore == <<"sqlite">>

\* contents that fail the check; k tells one damaged file from another
Garbage(k) == <<"garbage", k>>

\* the data directory after db_init: the store and nothing else
StoreInPlace == (DB_PATH :> ValidStore)

\* the instances of the application running on the data directory
Procs == 1..MaxProcs

\* a connection of db_add_activity: closed, or open after its SELECT
Closed == [pc |-> "closed", name |-> <<>>, max_order |-> 0]

AllClosed == [p \in Procs |-> Closed]

----------------------------------------------------------------------------
(* names *)

Letters == {"a", "A"}

None == <<"None">>

\* the words of at most n letters
RECURSIVE Words(_)
Words(n) ==
    IF n = 0 THEN {<<>>}
    ELSE LET shorter == Words(n - 1)
         IN shorter \cup {Append(w, c) : w \in {v \in shorter : Len(v) = n - 1}, c \in Letters}

\* a word as typed: bare, or with a blank before it, after it, or both
Typed(w) == {w, <<" ">> \o w, w \o <<" ">>, <<" ">> \o w \o <<" ">>}

\* what a caller passes as a name: a typed word, possibly empty, or None
NameInputs == UNION {Typed(w) : w \in Words(MaxNameLen)} \cup {None}

IsSpace(c) == c = " "

RECURSIVE LStrip(_)
LStrip(s) == IF s # <<>> /\ IsSpace(Head(s)) THEN LStrip(Tail(s)) ELSE s

RECURSIVE RStrip(_)
RStrip(s) ==
    IF s # <<>> /\ IsSpace(s[Len(s)]) THEN RStrip(SubSeq(s, 1, Len(s) - 1)) ELSE s

\* a name passed on as typed, not stripped
Strip_Nothing(s) == s

\* str.strip()
Strip(s) == RStrip(LStrip(s))

\* (name or "")
OrEmpty(name) == IF name = None THEN <<>> ELSE name

\* the argument as db_add_activity and db_rename_activity clean it
CleanName(name) == Strip(OrEmpty(name))

LowerChar(c) == IF c = "A" THEN "a" ELSE c

\* case folding of a name, as a case-insensitive comparison sees it
Lower(s) == [i \in 1..Len(s) |-> LowerChar(s[i])]

----------------------------------------------------------------------------
(* queries *)

\* any activity counts, mandatory or not
db_any_mandatory_exists_AnyActivity == activities # {}

db_any_mandatory_exists == \E a \in activities : a.mandatory = 1

\* the row db_get_done selects, as a set (the primary key makes it at most one)
DoneRows(activity_id, day_iso) ==
    {c \in completions : c.activity_id = activity_id /\ c.day = day_iso}

\* a missing row read as done
db_get_done_MissingIsDone(activity_id, day_iso) ==
    IF DoneRows(activity_id, day_iso) = {} THEN 1
    ELSE (CHOOSE c \in DoneRows(activity_id, day_iso) : TRUE).done

db_get_done(activity_id, day_iso) ==
    IF DoneRows(activity_id, day_iso) = {} THEN 0
    ELSE (CHOOSE c \in DoneRows(activity_id, day_iso) : TRUE).done

\* the ids day_is_success_for_streak collects in `required`
Required(day) ==
    {a.id : a \in {b \in activities :
                     b.mandatory = 1 /\ mask_has_day(b.days_mask, Weekday(day))}}

\* a day with nothing required counted as a failure
day_is_success_for_streak_NeedsRequired(day) ==
    /\ Required(day) # {}
    /\ \A a_id \in Required(day) : db_get_done(a_id, IsoFormat(day)) = 1

day_is_success_for_streak(day) ==
    IF Required(day) = {} THEN TRUE
    ELSE \A a_id \in Required(day) : db_get_done(a_id, IsoFormat(day)) = 1

----------------------------------------------------------------------------
(* commands *)

\* name TEXT UNIQUE NOT NULL: the column has no COLLATE clause, so the index
\* compares names with SQLite's default BINARY collation, byte for byte.
UniqueViolation(name, except_id) ==
    \E a \in activities : a.id # except_id /\ a.name = name

\* SELECT COALESCE(MAX(sort_order), 0) FROM activities
RECURSIVE MaxOf(_)
MaxOf(S) ==
    IF S = {} THEN 0
    ELSE LET x == CHOOSE y \in S : TRUE
             m == MaxOf(S \ {x})
         IN IF x > m THEN x ELSE m

\* COUNT(*) in place of MAX(sort_order)
MaxSortOrder_Count == Cardinality(activities)

MaxSortOrder == MaxOf({a.sort_order : a \in activities})

NewActivity(name) ==
    [id |-> seq + 1, name |-> name, mandatory |-> 0,
     days_mask |-> full_week_mask, sort_order |-> MaxSortOrder + 1]

Returned(okay, reason) == <<okay, reason>>

ReturnedNone == <<TRUE, "None">>

db_add_activity(name) ==
    /\ pc = "idle"
    /\ call' = [fn |-> "db_add_activity", id |-> 0, name |-> name]
    /\ IF CleanName(name) = <<>>
       THEN /\ result' = Returned(FALSE, "empty")
            /\ UNCHANGED storeVars
       ELSE IF UniqueViolation(CleanName(name), 0)
       THEN /\ result' = Returned(FALSE, "exists")
            /\ UNCHANGED storeVars
       ELSE /\ seq < MaxIds
            /\ activities' = activities \cup {NewActivity(CleanName(name))}
            /\ seq' = seq + 1
            /\ result' = Returned(TRUE, "")
            /\ UNCHANGED completions
    /\ UNCHANGED walkVars
    /\ UNCHANGED hostVars

db_rename_activity(activity_id, new_name) ==
    /\ pc = "idle"
    /\ call' = [fn |-> "db_rename_activity", id |-> activity_id, name |-> new_name]
    /\ IF CleanName(new_name) = <<>>
       THEN /\ result' = Returned(FALSE, "empty")
            /\ UNCHANGED storeVars
       ELSE IF (\E a \in activities : a.id = activity_id)
                /\ UniqueViolation(CleanName(new_name), activity_id)
       THEN /\ result' = Returned(FALSE, "exists")
            /\ UNCHANGED storeVars
       ELSE /\ activities' =
                 {IF a.id = activity_id
                  THEN [a EXCEPT !.name = CleanName(new_name)] ELSE a : a \in activities}
            /\ result' = Returned(TRUE, "")
            /\ UNCHANGED <<completions, seq>>
    /\ UNCHANGED walkVars
    /\ UNCHANGED hostVars

\* the rows deleted from activities keep their completions
CascadeDelete_Off(activity_id) == completions

\* FOREIGN KEY (activity_id) REFERENCES activities(id) ON DELETE CASCADE, with
\* foreign_keys = ON: the completions left when the activity's row is deleted
CascadeDelete(activity_id) ==
    IF \E a \in activities : a.id = activity_id
    THEN {c \in completions : c.activity_id # activity_id}
    ELSE completions

\* DELETE FROM activities WHERE id=?, with foreign_keys = ON: the rows of
\* completions that reference the activity go with it (ON DELETE CASCADE).
db_delete_activity(activity_id) ==
    /\ pc = "idle"
    /\ call' = [fn |-> "db_delete_activity", id |-> activity_id, name |-> <<>>]
    /\ activities' = {a \in activities : a.id # activity_id}
    /\ completions' = CascadeDelete(activity_id)
    /\ result' = ReturnedNone
    /\ UNCHANGED <<seq>>
    /\ UNCHANGED walkVars
    /\ UNCHANGED hostVars

db_clear_all ==
    /\ pc = "idle"
    /\ call' = [fn |-> "db_clear_all", id |-> 0, name |-> <<>>]
    /\ completions' = {}
    /\ activities' = {}
    /\ result' = ReturnedNone
    /\ UNCHANGED <<seq>>
    /\ UNCHANGED walkVars
    /\ UNCHANGED hostVars

\* an optional argument: left at None, or given the value v
Unset == <<>>

Given(v) == <<v>>

\* the row written with both columns, an omitted one as 0
UpdatedRow_WritesBoth(a, mandatory, days_mask) ==
    [a EXCEPT !.mandatory = IF mandatory # Unset THEN mandatory[1] ELSE 0,
              !.days_mask = IF days_mask # Unset THEN days_mask[1] ELSE 0]

\* row a after UPDATE activities SET <the given columns>
UpdatedRow(a, mandatory, days_mask) ==
    [a EXCEPT !.mandatory = IF mandatory # Unset THEN mandatory[1] ELSE @,
              !.days_mask = IF days_mask # Unset THEN days_mask[1] ELSE @]

db_update_activity(activity_id, mandatory, days_mask) ==
    /\ pc = "idle"
    /\ call' = [fn |-> "db_update_activity", id |-> activity_id, name |-> <<>>,
                mandatory |-> mandatory, days_mask |-> days_mask]
    /\ IF mandatory = Unset /\ days_mask = Unset
       THEN UNCHANGED activities
       ELSE activities' =
              {IF a.id = activity_id THEN UpdatedRow(a, mandatory, days_mask) ELSE a :
                 a \in activities}
    /\ result' = ReturnedNone
    /\ UNCHANGED <<completions, seq>>
    /\ UNCHANGED walkVars
    /\ UNCHANGED hostVars

\* the positions of an id in the list db_set_sort_orders is given
Positions(id, ordered_ids) == {i \in 1..Len(ordered_ids) : ordered_ids[i] = id}

\* enumerate() left at its default start of 0
SortOrderAfter_FromZero(a, ordered_ids) ==
    IF Positions(a.id, ordered_ids) = {} THEN a.sort_order
    ELSE MaxOf(Positions(a.id, ordered_ids)) - 1

\* the sort_order of row a after the UPDATEs of the loop, run in list order:
\* the last UPDATE that names the row decides
SortOrderAfter(a, ordered_ids) ==
    IF Positions(a.id, ordered_ids) = {} THEN a.sort_order
    ELSE MaxOf(Positions(a.id, ordered_ids))

db_set_sort_orders(ordered_ids) ==
    /\ pc = "idle"
    /\ call' = [fn |-> "db_set_sort_orders", id |-> 0, name |-> <<>>,
                ids |-> ordered_ids]
    /\ activities' =
         {[a EXCEPT !.sort_order = SortOrderAfter(a, ordered_ids)] : a \in activities}
    /\ result' = ReturnedNone
    /\ UNCHANGED <<completions, seq>>
    /\ UNCHANGED walkVars
    /\ UNCHANGED hostVars

\* the sequences without repetition of elements of S
RECURSIVE Arrangements(_)
Arrangements(S) ==
    {<<>>} \cup UNION {{<<x>> \o t : t \in Arrangements(S \ {x})} : x \in S}

\* ORDER BY sort_order ASC, name COLLATE NOCASE: row a may come before row b
OrderedBefore(a, b) ==
    \/ a.sort_order < b.sort_order
    \/ a.sort_order = b.sort_order /\ TextLE(Lower(a.name), Lower(b.name))

\* the lists db_list_activities may return: all rows, in an order the ORDER BY
\* allows (rows that tie on both keys come in either order)
db_list_activities ==
    {[i \in 1..Len(L) |->
         [id |-> L[i].id, name |-> L[i].name,
          mandatory |-> L[i].mandatory, days_mask |-> L[i].days_mask]] :
       L \in {M \in Arrangements(activities) :
                /\ Len(M) = Cardinality(activities)
                /\ \A i \in 1..(Len(M) - 1) : OrderedBefore(M[i], M[i + 1])}}

Raised(exception) == <<FALSE, exception>>

\* ON CONFLICT left out: the first value of a day stays
Upsert_KeepFirst(activity_id, day_iso, done) ==
    IF DoneRows(activity_id, day_iso) # {} THEN completions
    ELSE completions \cup {[activity_id |-> activity_id, day |-> day_iso, done |-> done]}

\* INSERT ... ON CONFLICT(activity_id, day) DO UPDATE SET done=excluded.done
Upsert(activity_id, day_iso, done) ==
    (completions \ DoneRows(activity_id, day_iso))
        \cup {[activity_id |-> activity_id, day |-> day_iso, done |-> done]}

\* With foreign_keys = ON the INSERT for an id that is in no row of activities
\* fails: sqlite3.IntegrityError leaves db_set_done uncaught, nothing is
\* committed.  (The connection is then closed only when it is collected.)
db_set_done(activity_id, day_iso, done) ==
    /\ pc = "idle"
    /\ call' = [fn |-> "db_set_done", id |-> activity_id, name |-> <<>>,
                day |-> day_iso, done |-> done]
    /\ IF \A a \in activities : a.id # activity_id
       THEN /\ result' = Raised("IntegrityError")
            /\ UNCHANGED storeVars
       ELSE /\ completions' = Upsert(activity_id, day_iso, done)
            /\ result' = ReturnedNone
            /\ UNCHANGED <<activities, seq>>
    /\ UNCHANGED walkVars
    /\ UNCHANGED hostVars

\* day < ? as the upper end of the range
DayBetween_EndExclusive(day, start_iso, end_iso) ==
    TextLE(start_iso, day) /\ TextLE(day, end_iso) /\ day # end_iso

\* WHERE day >= ? AND day <= ?, on TEXT values
DayBetween(day, start_iso, end_iso) ==
    TextLE(start_iso, day) /\ TextLE(day, end_iso)

\* the rows db_bulk_done_map selects; its dict has one item per row
db_bulk_done_map(start_iso, end_iso) ==
    {c \in completions : DayBetween(c.day, start_iso, end_iso)}

----------------------------------------------------------------------------
(* the store, one command at a time *)

Init ==
    /\ activities = {}
    /\ completions = {}
    /\ seq = 0
    /\ call = [fn |-> "db_init", id |-> 0, name |-> <<>>]
    /\ result = ReturnedNone
    /\ pc = "idle"
    /\ today = 0
    /\ allowed = 0
    /\ streak = 0
    /\ d = 0
    /\ current_week = 0
    /\ misses = 0
    /\ ok = FALSE
    /\ day_ = 0
    /\ files = StoreInPlace
    /\ now = 0
    /\ conns = AllClosed

AddActivity == \E name \in NameInputs : db_add_activity(name)

RenameActivity ==
    \E activity_id \in 1..MaxIds, name \in NameInputs :
        db_rename_activity(activity_id, name)

DeleteActivity == \E activity_id \in 1..MaxIds : db_delete_activity(activity_id)

ClearAll == db_clear_all

Next == AddActivity \/ RenameActivity \/ DeleteActivity \/ ClearAll

Spec == Init /\ [][Next]_vars

----------------------------------------------------------------------------
(* the completion ledger: activities come and go, days are ticked *)

\* three names as typed, some with blanks around them
TypedNames == {<<"a">>, <<" ", "A">>, <<"a", "A", " ">>}

\* the dates whose boxes are ticked and unticked
LedgerDays == {FirstToday - 2, FirstToday - 1}

LedgerIsos == {IsoFormat(day) : day \in LedgerDays}

AddTyped == \E name \in TypedNames : db_add_activity(name)

SetDone ==
    \E activity_id \in 1..MaxIds, day_iso \in LedgerIsos, done \in {0, 1} :
        db_set_done(activity_id, day_iso, done)

LedgerNext == AddTyped \/ DeleteActivity \/ ClearAll \/ SetDone

LedgerSpec == Init /\ [][LedgerNext]_vars

----------------------------------------------------------------------------
(* the order of the list: activities are added, deleted and dragged *)

\* the lists of ids a reorder passes
IdLists == Arrangements(1..MaxIds)

SetSortOrders == \E ordered_ids \in IdLists : db_set_sort_orders(ordered_ids)

OrderNext == AddTyped \/ DeleteActivity \/ ClearAll \/ SetSortOrders

OrderSpec == Init /\ [][OrderNext]_vars

----------------------------------------------------------------------------
(* the settings of an activity: its mandatory flag and its planned days *)

\* the loop of result_values over the seven day boxes, from box i on
RECURSIVE MaskOfChecks(_, _, _)
MaskOfChecks(m, i, checks) ==
    IF i > 6 THEN m
    ELSE MaskOfChecks(set_mask_day(m, i, i \in checks), i + 1, checks)

result_values(mand_checked, checks) ==
    <<IF mand_checked THEN 1 ELSE 0, MaskOfChecks(0, 0, checks)>>

\* the day boxes left checked: the full week, Monday to Friday, none
CheckedDays == {0..6, 0..4, {}}

DialogMasks == {result_values(FALSE, checks)[2] : checks \in CheckedDays}

UpdateActivity ==
    \E activity_id \in 1..MaxIds,
       mandatory \in {Unset, Given(0), Given(1)},
       days_mask \in {Unset} \cup {Given(m) : m \in DialogMasks} :
        db_update_activity(activity_id, mandatory, days_mask)

\* the box of the latest ledger date ticked
TickedIso == IsoFormat(FirstToday - 1)

TickDay == \E activity_id \in 1..MaxIds : db_set_done(activity_id, TickedIso, 1)

SettingsNext == AddTyped \/ UpdateActivity \/ TickDay

SettingsSpec == Init /\ [][SettingsNext]_vars

----------------------------------------------------------------------------
(* set_mask_day on every mask and day *)

SetMaskDay ==
    \E mask \in 0..full_week_mask, day_idx \in 0..6, value \in BOOLEAN :
        /\ call' = [fn |-> "set_mask_day", id |-> 0, name |-> <<>>,
                    mask |-> mask, day_idx |-> day_idx, value |-> value]
        /\ result' = set_mask_day(mask, day_idx, value)
        /\ UNCHANGED storeVars
        /\ UNCHANGED walkVars
        /\ UNCHANGED hostVars

MaskNext == SetMaskDay

MaskSpec == Init /\ [][MaskNext]_vars

----------------------------------------------------------------------------
(* the statistics tab *)

\* the dates on which the statistics are opened: with both ledger dates in
\* the 7-day window, with one of them, and with one of them in neither window
StatsTodays == {FirstToday, FirstToday + 5, FirstToday + 28}

\* the ends of the ranges _calc_range_stats is given
StatEnds == (FirstToday - 3)..FirstToday

\* d.isoformat() of the dates the ranges run over
StatIso == [day \in (FirstToday - 29)..(FirstToday + 28) |-> IsoFormat(day)]

\* any row of the map counts as done
IsDone_AnyRow(done_map, a_id, day_iso) ==
    \E c \in done_map : c.activity_id = a_id /\ c.day = day_iso

\* done_map.get((a_id, day_iso), 0) == 1
IsDone(done_map, a_id, day_iso) ==
    \E c \in done_map : c.activity_id = a_id /\ c.day = day_iso /\ c.done = 1

\* the weekday marked instead of counted
TallyDay_Once(day_done, idx) == [day_done EXCEPT ![idx + 1] = 1]

\* day_done[idx] += 1
TallyDay(day_done, idx) == [day_done EXCEPT ![idx + 1] = @ + 1]

\* the inner loop of _calc_range_stats from date d on; acc holds planned,
\* done and day_done
RECURSIVE DaysLoop(_, _, _, _, _)
DaysLoop(a, day, end_d, done_map, acc) ==
    IF day > end_d THEN acc
    ELSE LET idx == Weekday(day)
         IN IF ~mask_has_day(a.days_mask, idx)
            THEN DaysLoop(a, day + 1, end_d, done_map, acc)
            ELSE IF ~IsDone(done_map, a.id, StatIso[day])
            THEN DaysLoop(a, day + 1, end_d, done_map,
                          [acc EXCEPT !.planned = @ + 1])
            ELSE DaysLoop(a, day + 1, end_d, done_map,
                          [planned |-> acc.planned + 1, done |-> acc.done + 1,
                           day_done |-> TallyDay(acc.day_done, idx)])

\* the outer loop of _calc_range_stats from the i-th listed activity on
RECURSIVE ActivitiesLoop(_, _, _, _, _, _, _)
ActivitiesLoop(listed, i, start_d, end_d, done_map, per_act, day_done) ==
    IF i > Len(listed) THEN [per_act |-> per_act, day_done |-> day_done]
    ELSE LET r == DaysLoop(listed[i], start_d, end_d, done_map,
                           [planned |-> 0, done |-> 0, day_done |-> day_done])
         IN ActivitiesLoop(listed, i + 1, start_d, end_d, done_map,
                           Append(per_act, <<listed[i].name, r.planned, r.done>>),
                           r.day_done)

\* _calc_range_stats on the list db_list_activities returned
calc_range_stats(listed, start_d, end_d) ==
    ActivitiesLoop(listed, 1, start_d, end_d,
                   db_bulk_done_map(StatIso[start_d], StatIso[end_d]),
                   <<>>, [i \in 1..7 |-> 0])

\* int(round((done / planned) * 100)) if planned else 0; round() takes a
\* half to the even neighbour
Percent(done, planned) ==
    IF planned = 0 THEN 0
    ELSE LET q == (100 * done) \div planned
             r == (100 * done) % planned
         IN IF 2 * r < planned THEN q
            ELSE IF 2 * r > planned THEN q + 1
            ELSE IF q % 2 = 0 THEN q ELSE q + 1

\* the last index that holds the value
IndexOf_Last(list, value) ==
    CHOOSE i \in 0..(Len(list) - 1) :
        list[i + 1] = value /\ \A j \in (i + 1)..(Len(list) - 1) : list[j + 1] # value

\* list.index(value)
IndexOf(list, value) ==
    CHOOSE i \in 0..(Len(list) - 1) :
        list[i + 1] = value /\ \A j \in 0..(i - 1) : list[j + 1] # value

\* the strongest day shown: <<idx, mx>>, or <<>> for the dash
strong_day(day_done30) ==
    IF \E i \in 1..7 : day_done30[i] # 0
    THEN LET mx == MaxOf({day_done30[i] : i \in 1..7})
         IN <<IndexOf(day_done30, mx), mx>>
    ELSE <<>>

\* m.get(n, (0, 0)) of the dict {n: (p, d) for n, p, d in acts}
Lookup(acts, n) ==
    IF \E i \in 1..Len(acts) : acts[i][1] = n
    THEN LET i == MaxOf({j \in 1..Len(acts) : acts[j][1] = n})
         IN <<acts[i][2], acts[i][3]>>
    ELSE <<0, 0>>

\* the rows of the activity table: planned, done and percentage of the 7-day
\* and of the 30-day window under each name
TableRows(acts7, acts30) ==
    [n \in {acts30[i][1] : i \in 1..Len(acts30)} \cup {acts7[i][1] : i \in 1..Len(acts7)} |->
        LET r7 == Lookup(acts7, n)
            r30 == Lookup(acts30, n)
        IN [p7 |-> r7[1], d7 |-> r7[2], pct7 |-> Percent(r7[2], r7[1]),
            p30 |-> r30[1], d30 |-> r30[2], pct30 |-> Percent(r30[2], r30[1])]]

\* the store after two activities were added
StatsInit ==
    /\ activities =
         {[id |-> 1, name |-> <<"a">>, mandatory |-> 0,
           days_mask |-> full_week_mask, sort_order |-> 1],
          [id |-> 2, name |-> <<"A">>, mandatory |-> 0,
           days_mask |-> full_week_mask, sort_order |-> 2]}
    /\ completions = {}
    /\ seq = 2
    /\ call = [fn |-> "db_add_activity", id |-> 0, name |-> <<"A">>]
    /\ result = <<TRUE, "">>
    /\ pc = "idle"
    /\ today = 0
    /\ allowed = 0
    /\ streak = 0
    /\ d = 0
    /\ current_week = 0
    /\ misses = 0
    /\ ok = FALSE
    /\ day_ = 0
    /\ files = StoreInPlace
    /\ now = 0
    /\ conns = AllClosed

\* a box of the week table clicked: only the boxes of planned days are enabled
ToggleDone ==
    \E a \in activities, day \in LedgerDays :
        /\ mask_has_day(a.days_mask, Weekday(day))
        /\ db_set_done(a.id, StatIso[day], 1 - db_get_done(a.id, StatIso[day]))

\* the settings dialog accepted with other days checked
PlanDays ==
    \E a \in activities, m \in DialogMasks :
        db_update_activity(a.id, Given(a.mandatory), Given(m))

CalcRangeStats ==
    \E start_d \in StatEnds, end_d \in StatEnds, listed \in db_list_activities :
        /\ pc = "idle"
        /\ call' = [fn |-> "_calc_range_stats", id |-> 0, name |-> <<>>,
                    start_d |-> start_d, end_d |-> end_d]
        /\ result' = calc_range_stats(listed, start_d, end_d)
        /\ UNCHANGED storeVars
        /\ UNCHANGED walkVars
        /\ UNCHANGED hostVars

LoadData ==
    \E t \in StatsTodays, listed7 \in db_list_activities, listed30 \in db_list_activities :
        LET start7 == t - 6
            start30 == t - 29
            r7 == calc_range_stats(listed7, start7, t)
            r30 == calc_range_stats(listed30, start30, t)
        IN /\ pc = "idle"
           /\ call' = [fn |-> "load_data", id |-> 0, name |-> <<>>, today |-> t]
           /\ result' = [acts7 |-> r7.per_act, acts30 |-> r30.per_act,
                         day_done30 |-> r30.day_done,
                         strong_day |-> strong_day(r30.day_done),
                         rows |-> TableRows(r7.per_act, r30.per_act)]
           /\ UNCHANGED storeVars
           /\ UNCHANGED walkVars
           /\ UNCHANGED hostVars

StatsNext == ToggleDone \/ PlanDays \/ CalcRangeStats \/ LoadData

StatsSpec == StatsInit /\ [][StatsNext]_vars

----------------------------------------------------------------------------
(* start of the application on a data directory whose store may be damaged *)

\* os.rename(src, dst) that succeeds: dst is replaced if it exists
Renamed(fs, src, dst) ==
    [n \in (DOMAIN fs \ {src}) \cup {dst} |-> IF n = dst THEN fs[src] ELSE fs[n]]

\* os.remove(path) that succeeds
Removed(fs, path) == [n \in DOMAIN fs \ {path} |-> fs[n]]

\* the files after ensure_db_ok_or_rebuild at time ts; os.rename and
\* os.remove raise or not as the host decides
ensure_db_ok_or_rebuild(fs, ts, rename_raises, remove_raises) ==
    IF DB_PATH \notin DOMAIN fs THEN fs
    ELSE IF fs[DB_PATH] = ValidStore THEN fs
    ELSE IF ~rename_raises THEN Renamed(fs, DB_PATH, bad_path(ts))
    ELSE IF ~remove_raises THEN Removed(fs, DB_PATH)
    ELSE fs

\* lines 1338-1339: ensure_db_ok_or_rebuild() and then db_init(), which
\* creates the tables in a new file, finds them in a valid one and raises
\* sqlite3.DatabaseError on a file that is not a database
main ==
    \E rename_raises \in BOOLEAN, remove_raises \in BOOLEAN :
        LET fs == ensure_db_ok_or_rebuild(files, now, rename_raises, remove_raises)
        IN /\ pc = "idle"
           /\ call' = [fn |-> "main", id |-> 0, name |-> <<>>, ts |-> now]
           /\ IF DB_PATH \notin DOMAIN fs
              THEN /\ files' = fs @@ (DB_PATH :> ValidStore)
                   /\ activities' = {}
                   /\ completions' = {}
                   /\ seq' = 0
                   /\ result' = ReturnedNone
              ELSE IF fs[DB_PATH] = ValidStore
              THEN /\ files' = fs
                   /\ result' = ReturnedNone
                   /\ UNCHANGED storeVars
              ELSE /\ files' = fs
                   /\ result' = Raised("DatabaseError")
                   /\ UNCHANGED storeVars
           /\ UNCHANGED <<now, conns>>
           /\ UNCHANGED walkVars

\* the store file is damaged while the application is not running
Damage ==
    \E k \in 1..MaxDamage :
        /\ DB_PATH \in DOMAIN files
        /\ files' = [files EXCEPT ![DB_PATH] = Garbage(k)]
        /\ UNCHANGED <<storeVars, call, result, now, conns>>
        /\ UNCHANGED walkVars

\* a second passes
Tick ==
    /\ now < MaxClock
    /\ now' = now + 1
    /\ UNCHANGED <<storeVars, call, result, files, conns>>
    /\ UNCHANGED walkVars

\* an activity added through the window of a started application
AddToStore ==
    /\ DB_PATH \in DOMAIN files
    /\ files[DB_PATH] = ValidStore
    /\ AddTyped

StartupNext == main \/ Damage \/ Tick \/ AddToStore

StartupSpec == Init /\ [][StartupNext]_vars

----------------------------------------------------------------------------
(* db_add_activity in several instances running on one store *)

\* lines 151-157 in instance p: the early return, or the connection opened
\* and the SELECT run.  The SELECT is a statement of its own: sqlite3 opens
\* the transaction only before the INSERT.
db_add_activity_select(p, name) ==
    /\ pc = "idle"
    /\ conns[p] = Closed
    /\ IF CleanName(name) = <<>>
       THEN /\ call' = [fn |-> "db_add_activity", id |-> 0, name |-> name, proc |-> p]
            /\ result' = Returned(FALSE, "empty")
            /\ UNCHANGED conns
       ELSE /\ seq + Cardinality({q \in Procs : conns[q] # Closed}) < MaxIds
            /\ conns' = [conns EXCEPT ![p] = [pc |-> "selected",
                                              name |-> CleanName(name),
                                              max_order |-> MaxSortOrder]]
            /\ UNCHANGED <<call, result>>
    /\ UNCHANGED <<storeVars, files, now>>
    /\ UNCHANGED walkVars

\* lines 158-167 in instance p: the INSERT with the max_order read before,
\* the commit and the close
db_add_activity_insert(p) ==
    /\ pc = "idle"
    /\ conns[p] # Closed
    /\ call' = [fn |-> "db_add_activity", id |-> 0, name |-> conns[p].name, proc |-> p]
    /\ IF UniqueViolation(conns[p].name, 0)
       THEN /\ result' = Returned(FALSE, "exists")
            /\ UNCHANGED storeVars
       ELSE /\ activities' = activities \cup
                 {[id |-> seq + 1, name |-> conns[p].name, mandatory |-> 0,
                   days_mask |-> full_week_mask,
                   sort_order |-> conns[p].max_order + 1]}
            /\ seq' = seq + 1
            /\ result' = Returned(TRUE, "")
            /\ UNCHANGED completions
    /\ conns' = [conns EXCEPT ![p] = Closed]
    /\ UNCHANGED <<files, now>>
    /\ UNCHANGED walkVars

AddSelect ==
    \E p \in Procs, name \in TypedNames \cup {<<" ">>} : db_add_activity_select(p, name)

AddInsert == \E p \in Procs : db_add_activity_insert(p)

ConcurrentNext == AddSelect \/ AddInsert \/ DeleteActivity

ConcurrentSpec == Init /\ [][ConcurrentNext]_vars

----------------------------------------------------------------------------
(* calc_streak_upto *)

\* lines 268-274: the early return, or the locals before the loop
calc_streak_upto_enter ==
    /\ pc = "call"
    /\ IF ~db_any_mandatory_exists
       THEN /\ pc' = "done"
            /\ streak' = 0
            /\ UNCHANGED <<d, current_week, misses>>
       ELSE /\ pc' = "loop"
            /\ streak' = 0
            /\ d' = today
            /\ current_week' = monday(today)
            /\ misses' = 0
    /\ UNCHANGED <<today, allowed, ok, day_>>
    /\ UNCHANGED <<storeVars, hostVars, call, result>>

\* misses never reset at a week boundary
MissesAfter_NoWeekReset(w, isok) == misses + (IF isok THEN 0 ELSE 1)

\* misses after lines 277-286 for the day d
MissesAfter(w, isok) ==
    (IF w # current_week THEN 0 ELSE misses) + (IF isok THEN 0 ELSE 1)

\* the break taken as soon as the budget is reached
OverBudget_AtBudget(isok, m) == ~isok /\ m >= allowed

\* the break taken one miss late
OverBudget_OneLate(isok, m) == ~isok /\ m > allowed + 1

\* line 287: the break
OverBudget(isok, m) == ~isok /\ m > allowed

\* lines 292-293: the safety bound
SafetyStop(s) == s > MaxStreak

\* lines 276-293: one iteration of the loop
calc_streak_upto_iterate ==
    /\ pc = "loop"
    /\ LET w == monday(d)
           isok == day_is_success_for_streak(d)
           m == MissesAfter(w, isok)
       IN /\ current_week' = w
          /\ day_' = d
          /\ ok' = isok
          /\ misses' = m
          /\ IF OverBudget(isok, m)
             THEN /\ pc' = "done"
                  /\ UNCHANGED <<streak, d>>
             ELSE /\ streak' = streak + 1
                  /\ d' = d - 1
                  /\ pc' = IF SafetyStop(streak + 1) THEN "done" ELSE "loop"
    /\ UNCHANGED <<today, allowed>>
    /\ UNCHANGED <<storeVars, hostVars, call, result>>

----------------------------------------------------------------------------
(* one call of calc_streak_upto, on a store with a bounded history *)

Window(t) == (t - WinLen + 1)..t

\* the days of the window on which an activity with this mask is planned
Planned(mask, t) == {x \in Window(t) : mask_has_day(mask, Weekday(x))}

Marked(mask, t) == {S \in SUBSET Planned(mask, t) : Cardinality(S) <= MaxMarked}

\* Rows of one activity.  kept: every planned day of the window was ticked
\* (done = 1) and the days of S were unticked again (done = 0).
\* Otherwise only the days of S were ticked and the others have no row.
History(id, mask, t, S, kept) ==
    IF kept
    THEN {[activity_id |-> id, day |-> IsoFormat(x), done |-> IF x \in S THEN 0 ELSE 1] :
              x \in Planned(mask, t)}
    ELSE {[activity_id |-> id, day |-> IsoFormat(x), done |-> 1] : x \in S}

Masks1 == {full_week_mask, 1 + 4 + 16, 0}    \* every day; Mon, Wed, Fri; no day

Mask2 == 2 + 8 + 32 + 64                     \* Tue, Thu, Sat, Sun

\* the second activity: absent, or planned on Mask2 with all or none of its days ticked
Second == {[present |-> FALSE, mandatory |-> 0, ticked |-> FALSE]}
          \cup [present : {TRUE}, mandatory : {0, 1}, ticked : BOOLEAN]

Activity(id, name, mandatory, mask) ==
    [id |-> id, name |-> name, mandatory |-> mandatory,
     days_mask |-> mask, sort_order |-> id]

StreakInit ==
    \E t \in FirstToday..(FirstToday + 6), k \in 0..MaxAllowed,
       m1 \in {0, 1}, mask1 \in Masks1, kept \in BOOLEAN, b \in Second :
      \E S \in Marked(mask1, t) :
        /\ activities =
             {Activity(1, <<"a">>, m1, mask1)}
             \cup (IF b.present THEN {Activity(2, <<"A">>, b.mandatory, Mask2)} ELSE {})
        /\ completions =
             History(1, mask1, t, S, kept)
             \cup (IF b.present /\ b.ticked
                   THEN History(2, Mask2, t, {}, TRUE) ELSE {})
        /\ seq = 2
        /\ call = [fn |-> "db_init", id |-> 0, name |-> <<>>]
        /\ result = ReturnedNone
        /\ pc = "call"
        /\ today = t
        /\ allowed = k
        /\ streak = 0
        /\ d = 0
        /\ current_week = 0
        /\ misses = 0
        /\ ok = FALSE
        /\ day_ = 0
        /\ files = StoreInPlace
        /\ now = 0
        /\ conns = AllClosed

StreakNext == calc_streak_upto_enter \/ calc_streak_upto_iterate

StreakSpec == StreakInit /\ [][StreakNext]_vars

----------------------------------------------------------------------------
(* Properties of the streak engine, checked under StreakSpec *)

Mandatory == {a \in activities : a.mandatory = 1}

\* a completion row with done = 1 exists for the activity on that date
Ticked(id, day) ==
    \E c \in completions : c.activity_id = id /\ c.day = IsoFormat(day) /\ c.done = 1

Unsuccessful(day) == ~day_is_success_for_streak(day)

Min(x, y) == IF x < y THEN x ELSE y

\* the unsuccessful days of day's week that a walk back from today has met
\* when it stands on day
MetInWeek(day) ==
    {y \in day..Min(today, monday(day) + 6) : Unsuccessful(y)}

\* day is the unsuccessful day that takes its week over the budget
EndsStreak(day) == Unsuccessful(day) /\ Cardinality(MetInWeek(day)) = allowed + 1

\* C1: with a mandatory activity, the streak is the number of days walked back
\* from today before the first unsuccessful day that is the (allowed+1)-th
\* unsuccessful day met in its week: no counted day is such a day, and the day
\* the walk stopped on is one (unless the safety bound stopped it).
C1_StreakIsDaysBeforeOverBudgetDay ==
    (pc = "done" /\ Mandatory # {}) =>
        /\ \A n \in 0..(streak - 1) : ~EndsStreak(today - n)
        /\ streak <= MaxStreak => EndsStreak(today - streak)

C1_Witness ==
    /\ pc = "done"
    /\ Mandatory # {}
    /\ allowed = 1
    /\ streak >= 3
    /\ EndsStreak(today - streak)
    /\ \E n \in 0..(streak - 1) : Unsuccessful(today - n)

\* C2: the success computed for a day is TRUE exactly when every mandatory
\* activity planned on that weekday has a row with done = 1 for that date.
C2_SuccessIffAllRequiredTicked ==
    (pc \in {"loop", "done"} /\ day_ # 0) =>
        (ok <=> \A a \in activities :
                   (a.mandatory = 1 /\ mask_has_day(a.days_mask, Weekday(day_)))
                       => Ticked(a.id, day_))

\* a day that fails only because one of two required activities has no row
C2_Witness ==
    /\ pc \in {"loop", "done"}
    /\ day_ # 0
    /\ ~ok
    /\ \E a, b \in Mandatory :
          /\ mask_has_day(a.days_mask, Weekday(day_))
          /\ mask_has_day(b.days_mask, Weekday(day_))
          /\ Ticked(a.id, day_)
          /\ DoneRows(b.id, IsoFormat(day_)) = {}

\* C3: without a mandatory activity calc_streak_upto returns 0 at once: the
\* loop is never entered and the streak stays 0.
C3_NoMandatoryReturnsZero ==
    (\A a \in activities : a.mandatory # 1) => (pc # "loop" /\ streak = 0)

C3_Witness ==
    /\ pc = "done"
    /\ \A a \in activities : a.mandatory # 1
    /\ allowed = 1
    /\ \E a \in activities : Ticked(a.id, today)
    /\ streak = 0

\* exactly one mandatory activity, planned on every day
OneDailyMandatory ==
    /\ Cardinality(Mandatory) = 1
    /\ \A a \in Mandatory : a.days_mask = full_week_mask

\* d1 and d2 are the only unsuccessful days from d2 up to today
OnlyMisses(d1, d2) ==
    /\ d2 < d1
    /\ d1 <= today
    /\ \A y \in d2..today : Unsuccessful(y) <=> y \in {d1, d2}

\* C4: one daily mandatory activity, budget 1: two unsuccessful days that lie
\* in different weeks, with no other unsuccessful day up to today, do not end
\* the streak: both are counted.
C4_WeekBoundaryResetsMisses ==
    (pc = "done" /\ OneDailyMandatory /\ allowed = 1) =>
        \A d1, d2 \in Window(today) :
            (OnlyMisses(d1, d2) /\ monday(d1) # monday(d2))
                => streak >= today - d2 + 1

C4_Witness ==
    /\ pc = "done"
    /\ OneDailyMandatory
    /\ allowed = 1
    /\ \E d1, d2 \in Window(today) :
          /\ OnlyMisses(d1, d2)
          /\ monday(d1) # monday(d2)
          /\ streak > today - d2 + 1

\* an unsuccessful day with a later unsuccessful day of the same week, up to today
SecondMissOfWeek(day) ==
    /\ Unsuccessful(day)
    /\ \E y \in (day + 1)..Min(today, monday(day) + 6) : Unsuccessful(y)

Horizon == WinLen + 14

\* C5: one daily mandatory activity, budget 1: the streak ends at the first
\* day met that is the second unsuccessful day of its week; the result is the
\* number of days from today back to that day, that day excluded.
C5_SecondMissInWeekEndsStreak ==
    (pc = "done" /\ OneDailyMandatory /\ allowed = 1) =>
        \A x \in (today - Horizon)..today :
            (SecondMissOfWeek(x) /\ \A z \in (x + 1)..today : ~SecondMissOfWeek(z))
                => streak = today - x

\* both unsuccessful days lie in the window and the first one met is not today
C5_Witness ==
    /\ pc = "done"
    /\ OneDailyMandatory
    /\ allowed = 1
    /\ \E x \in Window(today) :
          /\ SecondMissOfWeek(x)
          /\ \A z \in (x + 1)..today : ~SecondMissOfWeek(z)
          /\ Unsuccessful(today - 1)
          /\ ~Unsuccessful(today)
          /\ x < today - 2
          /\ streak = today - x

\* The scenario of C6: the only mandatory activity is planned on Mon, Wed and
\* Fri; today is a Friday; this week's Monday and Wednesday are ticked, Friday
\* is not; the budget is 1.
RunScenario ==
    /\ Cardinality(Mandatory) = 1
    /\ \A a \in Mandatory :
          /\ a.days_mask = 1 + 4 + 16
          /\ Ticked(a.id, today - 4)
          /\ Ticked(a.id, today - 2)
          /\ ~Ticked(a.id, today)
    /\ Weekday(today) = 4
    /\ allowed = 1

\* the week before today's has at most `allowed` unsuccessful days
PreviousWeekWithinBudget ==
    Cardinality({y \in (monday(today) - 7)..(monday(today) - 1) : Unsuccessful(y)})
        <= allowed

\* C6 as stated: in the scenario the streak is 5.
C6_StreakIsFive ==
    (pc = "done" /\ RunScenario /\ PreviousWeekWithinBudget) => streak = 5

\* C6 amended: in the scenario the walk counts Friday back through Monday and
\* goes on into the previous week, whose Sunday and Saturday are successful:
\* the streak is at least 7, and at least 12 when the previous week stays
\* within its budget.
C6_StreakGoesOnIntoPreviousWeek ==
    (pc = "done" /\ RunScenario) =>
        /\ streak >= 7
        /\ PreviousWeekWithinBudget => streak >= 12

C6_Witness ==
    /\ pc = "done"
    /\ RunScenario
    /\ PreviousWeekWithinBudget
    /\ streak = 16

\* C7 as stated: the returned streak never exceeds 3650, and no more than
\* 3650 days are evaluated.
C7_StreakAtMostBound ==
    pc = "done" =>
        /\ streak <= MaxStreak
        /\ day_ # 0 => today - day_ + 1 <= MaxStreak

----------------------------------------------------------------------------
(* Properties of the store commands, checked under Spec *)

\* the cleaned argument names an existing activity, letter case ignored
NameExistsIgnoringCase(name) ==
    \E a \in activities : Lower(a.name) = Lower(CleanName(name))

\* C8 as stated: db_add_activity with a name that matches an existing name
\* case-insensitively after trimming returns (False, "exists") and leaves the
\* table activities as it was.
C8_AddDuplicateIgnoringCaseFails ==
    [][(call'.fn = "db_add_activity" /\ NameExistsIgnoringCase(call'.name))
          => (result' = <<FALSE, "exists">> /\ activities' = activities)]_vars

\* C9 as stated: no two activities have names that are equal when letter
\* case is ignored.
C9_NamesUniqueIgnoringCase ==
    \A a, b \in activities : a.id # b.id => Lower(a.name) # Lower(b.name)

\* absent, or nothing but whitespace
IsBlank(name) == name = None \/ \A i \in 1..Len(name) : name[i] = " "

\* C10: db_add_activity and db_rename_activity called with a blank name
\* return (False, "empty") and leave the store unchanged, and no stored
\* activity has an empty name.
C10_BlankNameRejected ==
    [][/\ (call'.fn \in {"db_add_activity", "db_rename_activity"} /\ IsBlank(call'.name))
            => (result' = <<FALSE, "empty">> /\ UNCHANGED storeVars)
       /\ \A a \in activities' : a.name # <<>> /\ ~IsBlank(a.name)]_vars

\* a rename of an existing activity to a whitespace-only name was refused
C10_Witness ==
    /\ call.fn = "db_rename_activity"
    /\ call.name = <<" ", " ">>
    /\ \E a \in activities : a.id = call.id
    /\ result = <<FALSE, "empty">>

----------------------------------------------------------------------------
(* Properties of the completion ledger, checked under LedgerSpec *)

ActivityIds == {a.id : a \in activities}

\* the earliest and the latest date text
FirstIso == IsoFormat(1)

LastIso == IsoFormat(3652059)

\* C11: every completion row belongs to an existing activity; after
\* db_delete_activity(id) no row of db_bulk_done_map over the whole calendar
\* is keyed by id and db_get_done(id, day) is 0 for every day.
C11_NoOrphanCompletions ==
    /\ \A c \in completions : c.activity_id \in ActivityIds
    /\ call.fn = "db_delete_activity" =>
          /\ \A c \in db_bulk_done_map(FirstIso, LastIso) : c.activity_id # call.id
          /\ \A day_iso \in LedgerIsos : db_get_done(call.id, day_iso) = 0

\* an activity with ticked days was deleted while another keeps its rows
C11_Witness ==
    /\ call.fn = "db_delete_activity"
    /\ call.id = 1
    /\ seq >= 2
    /\ 1 \notin ActivityIds
    /\ \E c \in completions : c.activity_id = 2 /\ c.done = 1

\* C12: for an existing activity a and a day d, db_get_done(a, d) is the
\* value of the latest db_set_done(a, d, v), 0 if there was none: a
\* db_set_done sets it, every other command leaves it, and it is 0 for a new
\* activity.  db_set_done changes no other row and no activity, and
\* repeated with the same value it leaves the store as it is.
C12_GetReturnsLatestSet ==
    [][/\ \A a \in activities', day_iso \in LedgerIsos :
            db_get_done(a.id, day_iso)' =
                IF call'.fn = "db_set_done" /\ call'.id = a.id /\ call'.day = day_iso
                THEN call'.done
                ELSE IF a.id \in ActivityIds
                THEN db_get_done(a.id, day_iso)
                ELSE 0
       /\ (call'.fn = "db_set_done" /\ call'.id \in ActivityIds) =>
            /\ activities' = activities
            /\ \A c \in completions \cup completions' :
                  (c.activity_id # call'.id \/ c.day # call'.day)
                      => (c \in completions <=> c \in completions')
            /\ [activity_id |-> call'.id, day |-> call'.day, done |-> call'.done]
                    \in completions => UNCHANGED storeVars]_vars

\* a day ticked, then unticked again, beside another activity's row
C12_Witness ==
    /\ call.fn = "db_set_done"
    /\ call.done = 0
    /\ result = ReturnedNone
    /\ \E c \in completions :
          c.activity_id = call.id /\ c.day = call.day /\ c.done = 0
    /\ \E c \in completions : c.activity_id # call.id /\ c.done = 1

\* the ends of the ranges asked for: some before, on, between and after the
\* dates that hold records
RangeDays ==
    {FirstToday - 32, FirstToday - 2, FirstToday - 1, FirstToday, FirstToday + 60}

RangeIso == [day \in RangeDays |-> IsoFormat(day)]

\* the date a stored day text stands for
DateOf(day_iso) == CHOOSE day \in LedgerDays : RangeIso[day] = day_iso

\* C13: db_bulk_done_map(start, end) holds exactly the stored completion rows
\* whose date d has start <= d <= end, each under its key (activity_id, day)
\* with its stored done value; it is empty when start is after end.
C13_BulkMapIsTheInclusiveRange ==
    \A start_d, end_d \in RangeDays :
        LET done_map == db_bulk_done_map(RangeIso[start_d], RangeIso[end_d])
        IN /\ done_map \subseteq completions
           /\ \A c \in completions :
                c \in done_map <=> (start_d <= DateOf(c.day) /\ DateOf(c.day) <= end_d)
           /\ \A c1, c2 \in done_map :
                (c1.activity_id = c2.activity_id /\ c1.day = c2.day) => c1 = c2
           /\ start_d > end_d => done_map = {}

\* rows on both dates; a range that ends on the first date holds that row
\* only, and the range taken backwards is empty
C13_Witness ==
    /\ \A day \in LedgerDays : \E c \in completions : DateOf(c.day) = day
    /\ \E c \in completions : c.done = 0
    /\ \E c \in completions : c.done = 1
    /\ \E end_d \in LedgerDays :
          LET done_map == db_bulk_done_map(RangeIso[FirstToday - 32], RangeIso[end_d])
          IN /\ done_map # {}
             /\ done_map # completions
             /\ \E c \in done_map : DateOf(c.day) = end_d
             /\ db_bulk_done_map(RangeIso[end_d], RangeIso[FirstToday - 32]) = {}

----------------------------------------------------------------------------
(* Properties of the list order, checked under OrderSpec *)

\* the elements of a sequence
Range(f) == {f[i] : i \in DOMAIN f}

\* C14: db_set_sort_orders(ids) gives the k-th listed id the sort_order k and
\* changes nothing else; when ids lists every existing activity once,
\* db_list_activities then returns the activities in the order of ids.
C14_SortOrdersFollowTheList ==
    [][call'.fn = "db_set_sort_orders" =>
        LET ids == call'.ids
        IN /\ {a.id : a \in activities'} = ActivityIds
           /\ \A a \in activities :
                \E b \in activities' :
                    /\ b = [a EXCEPT !.sort_order = b.sort_order]
                    /\ \A k \in 1..Len(ids) : ids[k] = a.id => b.sort_order = k
                    /\ a.id \notin Range(ids) => b.sort_order = a.sort_order
           /\ Range(ids) = ActivityIds =>
                \A L \in db_list_activities' :
                    /\ Len(L) = Len(ids)
                    /\ \A k \in 1..Len(ids) : L[k].id = ids[k]
           /\ completions' = completions]_vars

\* two activities listed against their order of creation
C14_Witness ==
    /\ call.fn = "db_set_sort_orders"
    /\ Len(call.ids) = 2
    /\ Range(call.ids) = ActivityIds
    /\ call.ids[1] > call.ids[2]
    /\ \A L \in db_list_activities : L[1].id = call.ids[1]

\* C15: a successful db_add_activity(name) adds one row with the stripped
\* name, mandatory 0, all seven days planned and sort_order one more than the
\* largest existing sort_order (1 in an empty table); the new activity comes
\* last in db_list_activities.
C15_AddedActivityIsLast ==
    [][(call'.fn = "db_add_activity" /\ result' = <<TRUE, "">>) =>
        \E a \in activities' :
            /\ a \notin activities
            /\ a.id \notin ActivityIds
            /\ activities' = activities \cup {a}
            /\ a.name = Strip(call'.name)
            /\ a.mandatory = 0
            /\ \A i \in 0..6 : mask_has_day(a.days_mask, i)
            /\ activities = {} => a.sort_order = 1
            /\ \A b \in activities : a.sort_order > b.sort_order
            /\ activities # {} => \E b \in activities : a.sort_order = b.sort_order + 1
            /\ \A L \in db_list_activities' : L[Len(L)].id = a.id]_vars

\* added with blanks typed around the name, after a reorder that left the
\* largest sort_order above the number of activities
C15_Witness ==
    /\ call.fn = "db_add_activity"
    /\ result = <<TRUE, "">>
    /\ call.name # Strip(call.name)
    /\ Cardinality(activities) = 2
    /\ \E a, b \in activities :
          a.id = seq /\ a.sort_order = b.sort_order + 1 /\ a.sort_order > 2

----------------------------------------------------------------------------
(* Properties of the settings, checked under SettingsSpec and MaskSpec *)

\* C16: db_update_activity(id, mandatory, days_mask) writes the given fields
\* of activity id and nothing else: the field not given, the name, the
\* sort_order, every other activity and every completion row stay as they
\* were; with neither field given the whole store stays as it was.
C16_UpdateWritesOnlyGivenFields ==
    [][call'.fn = "db_update_activity" =>
        /\ completions' = completions
        /\ seq' = seq
        /\ {a.id : a \in activities'} = ActivityIds
        /\ \A a \in activities, b \in activities' :
              a.id = b.id =>
                /\ b.name = a.name
                /\ b.sort_order = a.sort_order
                /\ a.id # call'.id => b = a
                /\ b.mandatory = IF a.id = call'.id /\ Len(call'.mandatory) = 1
                                 THEN call'.mandatory[1] ELSE a.mandatory
                /\ b.days_mask = IF a.id = call'.id /\ Len(call'.days_mask) = 1
                                 THEN call'.days_mask[1] ELSE a.days_mask
        /\ (Len(call'.mandatory) = 0 /\ Len(call'.days_mask) = 0) =>
              activities' = activities]_vars

\* only the plan of the first of two activities was rewritten, after its flag
\* was set and a box of each activity was ticked
C16_Witness ==
    /\ call.fn = "db_update_activity"
    /\ call.id = 1
    /\ Len(call.mandatory) = 0
    /\ Len(call.days_mask) = 1
    /\ \E a, b \in activities :
          /\ a.id = 1 /\ a.mandatory = 1 /\ a.days_mask = call.days_mask[1]
          /\ a.days_mask # full_week_mask
          /\ b.id = 2 /\ b.days_mask = full_week_mask
    /\ \A a \in activities : db_get_done(a.id, TickedIso) = 1

\* C17: for every mask m in 0..127, day i in 0..6 and value v, day i of
\* set_mask_day(m, i, v) is planned exactly when v is true, and every other
\* day j is planned in the result exactly when it is planned in m.
C17_SetChangesOnlyItsDay ==
    call.fn = "set_mask_day" =>
        /\ result \in 0..full_week_mask
        /\ mask_has_day(result, call.day_idx) = call.value
        /\ \A j \in 0..6 :
              j # call.day_idx => mask_has_day(result, j) = mask_has_day(call.mask, j)

\* a day that was planned is taken out of a mask that keeps other days
C17_Witness ==
    /\ call.fn = "set_mask_day"
    /\ ~call.value
    /\ mask_has_day(call.mask, call.day_idx)
    /\ result # 0
    /\ result # call.mask

----------------------------------------------------------------------------
(* Properties of the statistics, checked under StatsSpec *)

\* the days of a range on which activity a is planned
PlannedDays(a, start_d, end_d) ==
    {day \in start_d..end_d : mask_has_day(a.days_mask, Weekday(day))}

\* the planned days of a range that have a done=1 record of activity a
DoneDays(a, start_d, end_d) ==
    {day \in PlannedDays(a, start_d, end_d) :
        \E c \in completions :
            c.activity_id = a.id /\ c.done = 1 /\ DateOf(c.day) = day}

\* per_act holds one entry per activity, with these two counts
CountsPlannedAndDone(per_act, start_d, end_d) ==
    /\ Len(per_act) = Cardinality(activities)
    /\ \A a \in activities :
          \E i \in 1..Len(per_act) :
              /\ per_act[i] = <<a.name, Cardinality(PlannedDays(a, start_d, end_d)),
                                Cardinality(DoneDays(a, start_d, end_d))>>
              /\ per_act[i][3] <= per_act[i][2]

\* C18: for every range and activity, _calc_range_stats reports planned = the
\* days of the range whose weekday is in the activity's mask and done = those
\* of them with a done=1 record, so done <= planned; an activity with
\* planned = 0 is shown with planned 0, done 0 and 0%.
C18_PlannedAndDoneCounts ==
    /\ call.fn = "_calc_range_stats" =>
          CountsPlannedAndDone(result.per_act, call.start_d, call.end_d)
    /\ call.fn = "load_data" =>
          /\ CountsPlannedAndDone(result.acts7, call.today - 6, call.today)
          /\ CountsPlannedAndDone(result.acts30, call.today - 29, call.today)
          /\ DOMAIN result.rows = {a.name : a \in activities}
          /\ \A a \in activities :
                LET row == result.rows[a.name]
                IN /\ row.p7 = Cardinality(PlannedDays(a, call.today - 6, call.today))
                   /\ row.d7 = Cardinality(DoneDays(a, call.today - 6, call.today))
                   /\ row.p30 = Cardinality(PlannedDays(a, call.today - 29, call.today))
                   /\ row.d30 = Cardinality(DoneDays(a, call.today - 29, call.today))
                   /\ row.p7 = 0 => (row.d7 = 0 /\ row.pct7 = 0)
                   /\ row.p30 = 0 => (row.d30 = 0 /\ row.pct30 = 0)
                   /\ row.pct7 \in 0..100 /\ row.pct30 \in 0..100

\* the table shows an activity with nothing planned that still has a done=1
\* record, and one that did a part of its plan and has a done=0 record too
C18_Witness ==
    /\ call.fn = "load_data"
    /\ \E a, b \in activities :
          /\ result.rows[a.name].p30 = 0
          /\ \E c \in completions : c.activity_id = a.id /\ c.done = 1
          /\ result.rows[b.name].d7 > 0
          /\ result.rows[b.name].d30 < result.rows[b.name].p30
          /\ \E c \in completions : c.activity_id = b.id /\ c.done = 0

\* the done=1 records of a range that fall on weekday w
DoneRecords(start_d, end_d, w) ==
    {c \in completions :
        /\ c.done = 1
        /\ start_d <= DateOf(c.day) /\ DateOf(c.day) <= end_d
        /\ Weekday(DateOf(c.day)) = w}

\* C19 as claimed: the total of weekday w is the number of done=1 records,
\* of all activities, whose day lies in the range and falls on w.
C19_TotalsCountAllDoneRecords ==
    /\ call.fn = "_calc_range_stats" =>
          \A w \in 0..6 :
              result.day_done[w + 1] =
                  Cardinality(DoneRecords(call.start_d, call.end_d, w))
    /\ call.fn = "load_data" =>
          \A w \in 0..6 :
              result.day_done30[w + 1] =
                  Cardinality(DoneRecords(call.today - 29, call.today, w))

\* those of the records whose activity is planned on weekday w
PlannedDoneRecords(start_d, end_d, w) ==
    {c \in DoneRecords(start_d, end_d, w) :
        \E a \in activities : a.id = c.activity_id /\ mask_has_day(a.days_mask, w)}

\* C19, amended: the total of weekday w is the number of done=1 records whose
\* day lies in the range and falls on w and whose activity is planned on w.
C19_TotalsCountPlannedDoneRecords ==
    /\ call.fn = "_calc_range_stats" =>
          \A w \in 0..6 :
              result.day_done[w + 1] =
                  Cardinality(PlannedDoneRecords(call.start_d, call.end_d, w))
    /\ call.fn = "load_data" =>
          \A w \in 0..6 :
              result.day_done30[w + 1] =
                  Cardinality(PlannedDoneRecords(call.today - 29, call.today, w))

\* a weekday with two done=1 records in the range, one of an activity that
\* is no longer planned on it
C19_Witness ==
    /\ call.fn = "_calc_range_stats"
    /\ \E w \in 0..6 :
          /\ result.day_done[w + 1] = 1
          /\ Cardinality(DoneRecords(call.start_d, call.end_d, w)) = 2

\* C20: the strongest day of load_data is the weekday whose total over
\* today-29 .. today is largest, the lowest such index when several share the
\* largest total, and no day when all seven totals are zero.
C20_StrongestDayIsFirstMaximum ==
    call.fn = "load_data" =>
        LET total(w) == Cardinality(PlannedDoneRecords(call.today - 29, call.today, w))
            shown == result.strong_day
        IN IF \A w \in 0..6 : total(w) = 0
           THEN shown = <<>>
           ELSE /\ Len(shown) = 2
                /\ shown[1] \in 0..6
                /\ shown[2] = total(shown[1])
                /\ \A w \in 0..6 : total(w) <= total(shown[1])
                /\ \A w \in 0..(shown[1] - 1) : total(w) < total(shown[1])

\* two weekdays share the largest total and the earlier one is shown
C20_Witness ==
    /\ call.fn = "load_data"
    /\ Len(result.strong_day) = 2
    /\ \E w \in 0..6 :
          /\ w > result.strong_day[1]
          /\ result.day_done30[w + 1] = result.strong_day[2]

\* nothing is done inside the window, so no day is shown, while a done=1
\* record lies before the window
C20_WitnessNone ==
    /\ call.fn = "load_data"
    /\ result.strong_day = <<>>
    /\ \E c \in completions : c.done = 1 /\ DateOf(c.day) < call.today - 29

----------------------------------------------------------------------------
(* Properties of the start, checked under StartupSpec *)

\* C21: whenever the store found at startup fails validation, the damaged
\* file is kept under the archival name of that time, no archived file is
\* deleted or overwritten, a new empty store takes its place and the startup
\* does not fail.
C21_DamagedStoreIsArchived ==
    [][(call'.fn = "main" /\ DB_PATH \in DOMAIN files /\ files[DB_PATH] # ValidStore) =>
        /\ bad_path(call'.ts) \in DOMAIN files'
        /\ files'[bad_path(call'.ts)] = files[DB_PATH]
        /\ \A n \in DOMAIN files \ {DB_PATH} :
              n \in DOMAIN files' /\ files'[n] = files[n]
        /\ DB_PATH \in DOMAIN files'
        /\ files'[DB_PATH] = ValidStore
        /\ activities' = {}
        /\ completions' = {}
        /\ result' = ReturnedNone]_vars

----------------------------------------------------------------------------
(* Properties of concurrent instances, checked under ConcurrentSpec *)

\* C22: the store is always one that the commands run one after the other
\* would leave; in particular the SELECT MAX(sort_order) and the INSERT of
\* db_add_activity act as one step, so no two activities hold the same
\* sort_order after adds (and deletions) however they interleave.
C22_InterleavedAddsGetDifferentSortOrders ==
    \A a \in activities, b \in activities :
        a.id # b.id => a.sort_order # b.sort_order

----------------------------------------------------------------------------
(* The streak at the reference date, checked under StreakSpec *)

\* C23: calc_streak_upto returns 0 exactly when no activity is mandatory, or
\* the budget is 0 and the reference date itself is unsuccessful; with a
\* mandatory activity and a budget of 1 or more it returns at least 1,
\* whatever the earlier days of the reference date's week hold.
C23_ZeroOnlyWithoutMandatoryOrBudget ==
    pc = "done" =>
        /\ streak = 0 <=>
              \/ \A a \in activities : a.mandatory # 1
              \/ allowed = 0 /\ Unsuccessful(today)
        /\ ((\E a \in activities : a.mandatory = 1) /\ allowed >= 1) => streak >= 1

\* the reference date and the day before it, of the same week, are both
\* unsuccessful; the budget of 1 still lets the reference date count
C23_Witness ==
    /\ pc = "done"
    /\ \E a \in activities : a.mandatory = 1
    /\ allowed = 1
    /\ monday(today - 1) = monday(today)
    /\ Unsuccessful(today)
    /\ Unsuccessful(today - 1)
    /\ streak = 1

====
